---- MODULE Spec2Model ----
(***************************************************************************)
(* Sniffer Web3: the data aggregation, retry and caching layer.            *)
(*                                                                         *)
(* Spec           the browser side: the page's exclusive rendering of the  *)
(*                WalletProfiler and the TokenExplorer, their React state, *)
(*                their requests in flight and the localStorage cache.     *)
(* SpecAggregate  the wallet aggregation under every combination of the    *)
(*                outcomes of its three sub-calls.                         *)
(* SpecExplorer   the TokenExplorer with its search tab.                   *)
(* SpecClient     the Etherscan client: rateLimit and the retry loop of    *)
(*                makeRequest, called concurrently, in real time.          *)
(* SpecPage       the identity search of the Home page and its cancel.     *)
(* SpecDedup      removeDuplicates of the DEXScreener route, on lists of   *)
(*                pairs.                                                   *)
(* SpecDex        GET /api/dexscreener/tokens in its three modes, on the   *)
(*                answers of the upstream.                                 *)
(* SpecSettle     one wallet aggregation with its three routes, each one   *)
(*                call of the client; SpecSettleLive adds the fairness of  *)
(*                the timers.                                              *)
(* SpecGather     the parallel calls of the two aggregations, settling in  *)
(*                any order.                                               *)
(* SpecPaging     the TokenExplorer with the lengths of its lists and its  *)
(*                pagination.                                              *)
(* SpecFormat     the formatting of Etherscan records: token decimals and  *)
(*                wei amounts.                                             *)
(*                                                                         *)
(* A React handler (an event handler or the continuation of an awaited     *)
(* promise) is one action: the state updates it makes, followed by the     *)
(* renders and effects they trigger until nothing changes.                 *)
(***************************************************************************)
EXTENDS Integers, Sequences, FiniteSets, TLC

(***************************************************************************)
(* Bounds of the model.                                                    *)
(***************************************************************************)
\* number of times the clock advances in one behaviour
MaxTicks == 3
\* wallet aggregations (fetchRealData calls) in flight at once
MaxRequests == 2
\* token searches (searchTokens calls) in flight at once
MaxSearches == 2
\* concurrent callers of the Etherscan client (the wallet, transactions and
\* tokens routes)
NumCallers == 3
\* number of times the clock advances in a behaviour of the client
MaxAdvances == 5
\* requests sent to Etherscan in a behaviour of the client
MaxFetches == 4
\* identity searches (handleSearch calls) in flight at once
MaxPageSearches == 2
\* pairs in a list given to removeDuplicates
MaxPairs == 4
\* pairs in the upstream's answer to a search
MaxSearchPairs == 2
\* pairs in the upstream's answer for one token address
MaxTokenPairs == 2
\* pairs in the search answer where the parallel calls are followed
MaxGatherSearchPairs == 1
\* the time a response takes at least, in ms
Latency == 100

(***************************************************************************)
(* Program constants.                                                      *)
(***************************************************************************)
\* WalletProfiler.tsx: const CACHE_DURATION = 30 * 60 * 1000
CACHE_DURATION == 30 * 60 * 1000
\* TokenExplorer.tsx fetchTokens: const CACHE_DURATION = 3 * 60 * 1000
TOKEN_CACHE_DURATION == 3 * 60 * 1000
\* useState<number | null>(null): the null of a timestamp
NoTime == -1
\* etherscan.ts rateLimit: const minInterval = 250
minInterval == 250
\* etherscan.ts makeRequest: maxRetries: number = 3
maxRetries == 3
\* etherscan.ts makeRequest: setTimeout(() => controller.abort(), 30000)
RequestTimeout == 30000
\* getTrendingBaseTokens: .slice(0, 50)
TrendingLimit == 50
\* getAllBaseTokens: searchResults.slice(0, 4)
SearchSlice == 4
\* getAllBaseTokens: .slice(0, 100)
DefaultLimit == 100
\* useBaseTokens: tokensPerPage
tokensPerPage == 20
\* formatTransaction: Math.pow(10, 18)
EtherDigits == 18
\* formatTransaction: toFixed(6)
DisplayDigits == 6

\* Wallet addresses the user searches: one in mixed case, one in lower case.
Addresses == {"0xAA", "0xbb"}

\* String.prototype.toLowerCase on the addresses of the model
toLowerCase(address) == IF address = "0xAA" THEN "0xaa" ELSE address

\* getCacheKey: `wallet_profiler_${address.toLowerCase()}`
getCacheKey(address) == toLowerCase(address)

CacheKeys == {getCacheKey(a) : a \in Addresses}

VARIABLES
    now,            \* Date.now(), in ms
    ticks,          \* how often the clock has advanced
    view,           \* what page.tsx renders: "none", "profiler" or "tokens"
    localStorage,   \* the wallet_profiler_* items of window.localStorage
    profiler,       \* React state (and the searchedAddress prop) of WalletProfiler
    requests,       \* fetchRealData calls awaiting Promise.allSettled
    explorer,       \* React state of TokenExplorer (useBaseTokens)
    tokenRequests,  \* fetchTokens calls awaiting their fetch
    searchRequests, \* searchTokens calls awaiting their fetch
    reads,          \* cache reads made by the last step
    lastRequestTime,\* EtherscanAPI.lastRequestTime of the singleton
    callers,        \* the makeRequest call of each caller
    lastSent,       \* when the last request went out to Etherscan
    page,           \* React state of the Home page (page.tsx)
    searches,       \* handleSearch calls awaiting a promise
    upstream,       \* what the DEXScreener API answers
    route,          \* the last call of the DEXScreener tokens route and its result
    raw,            \* a record as Etherscan returns it
    formatted       \* what the last formatting operation made of it

profilerVars == <<profiler, requests>>
explorerVars == <<explorer, tokenRequests, searchRequests>>
clientVars == <<lastRequestTime, callers, lastSent>>
pageVars == <<page, searches>>
dexVars == <<upstream, route>>
formatVars == <<raw, formatted>>
vars == <<now, ticks, view, localStorage, profilerVars, explorerVars, reads,
          clientVars, pageVars, dexVars, formatVars>>

(***************************************************************************)
(* Values.                                                                 *)
(***************************************************************************)
\* EtherscanData | null
NoData ==
    [kind |-> "null", address |-> "", wallet |-> "null",
     transactions |-> "empty", tokens |-> "empty"]

\* WalletProfile | null
NoProfile == [kind |-> "null", address |-> "", basis |-> NoData]

\* a localStorage item, or its absence (getItem returns null)
NoEntry ==
    [kind |-> "null", realData |-> NoData, walletProfile |-> NoProfile,
     lastFetchTime |-> NoTime, timestamp |-> NoTime]

\* the useState initial values of WalletProfiler, rendered for searchedAddress
ProfilerInitial(address) ==
    [searchedAddress |-> address,
     walletProfile |-> NoProfile,
     isLoading |-> TRUE,
     error |-> "null",
     realData |-> NoData,
     isLoadingRealData |-> FALSE,
     lastFetchTime |-> NoTime,
     hasInitiallyLoaded |-> FALSE]

\* the component is not rendered: it has no state
ProfilerUnmounted == ProfilerInitial("")

(***************************************************************************)
(* The world a handler of WalletProfiler acts on: the component's state c, *)
(* localStorage ls, the requests in flight rq, and what the handler did.   *)
(***************************************************************************)
World(c, ls, rq) ==
    [c |-> c, ls |-> ls, rq |-> rq, reads |-> <<>>, overflow |-> FALSE]

\* saveToCache(address, data, profile, fetchTime)
saveToCache(w, address, data, profile, fetchTime) ==
    LET cacheKey == getCacheKey(address)
        cacheData == [kind |-> "entry", realData |-> data, walletProfile |-> profile,
                      lastFetchTime |-> fetchTime, timestamp |-> now]
    IN [w EXCEPT !.ls = [@ EXCEPT ![cacheKey] = cacheData]]

\* loadFromCache with the comparison age <= CACHE_DURATION
loadFromCacheHit_Inclusive(ls, address) ==
    LET cached == ls[getCacheKey(address)]
    IN cached.kind = "entry" /\ now - cached.timestamp <= CACHE_DURATION

\* loadFromCache(address): whether it returns the cached data
loadFromCacheHit(ls, address) ==
    LET cached == ls[getCacheKey(address)]
    IN cached.kind = "entry" /\ now - cached.timestamp < CACHE_DURATION

\* loadFromCache without the removeItem of an expired item
loadFromCache_KeepsExpired(w, address) ==
    LET cacheKey == getCacheKey(address)
        cached == w.ls[cacheKey]
        hit == loadFromCacheHit(w.ls, address)
        read == [cache |-> "wallet", key |-> cacheKey, at |-> now,
                 present |-> cached.kind = "entry",
                 timestamp |-> cached.timestamp,
                 hit |-> hit,
                 value |-> IF hit THEN cached ELSE NoEntry]
    IN [w EXCEPT !.reads = Append(@, read)]

\* loadFromCache that stamps the item it returns with the time of the read
loadFromCache_Renews(w, address) ==
    LET cacheKey == getCacheKey(address)
        cached == w.ls[cacheKey]
        hit == loadFromCacheHit(w.ls, address)
        read == [cache |-> "wallet", key |-> cacheKey, at |-> now,
                 present |-> cached.kind = "entry",
                 timestamp |-> cached.timestamp,
                 hit |-> hit,
                 value |-> IF hit THEN cached ELSE NoEntry]
    IN [w EXCEPT !.ls = IF cached.kind = "entry"
                        THEN [@ EXCEPT ![cacheKey] =
                                 IF hit THEN [cached EXCEPT !.timestamp = now]
                                 ELSE NoEntry]
                        ELSE @,
                 !.reads = Append(@, read)]

\* loadFromCache(address): the world after the call (an expired item is removed)
loadFromCache(w, address) ==
    LET cacheKey == getCacheKey(address)
        cached == w.ls[cacheKey]
        hit == loadFromCacheHit(w.ls, address)
        read == [cache |-> "wallet", key |-> cacheKey, at |-> now,
                 present |-> cached.kind = "entry",
                 timestamp |-> cached.timestamp,
                 hit |-> hit,
                 value |-> IF hit THEN cached ELSE NoEntry]
    IN [w EXCEPT !.ls = IF cached.kind = "entry" /\ ~hit
                        THEN [@ EXCEPT ![cacheKey] = NoEntry] ELSE @,
                 !.reads = Append(@, read)]

\* createWalletProfile(realData), with the searchedAddress of the render
createWalletProfile(searchedAddress, data) ==
    [kind |-> "profile", address |-> searchedAddress, basis |-> data]

\* the smallest request id not in flight (0: none is free)
FreeId(rq) ==
    LET used == {r.id : r \in rq}
        free == (1..MaxRequests) \ used
    IN IF free = {} THEN 0 ELSE CHOOSE i \in free : \A j \in free : i <= j

\* fetchRealData(address, forceRefresh) up to its await; s is the render whose
\* closure the call runs in (it fixes lastFetchTime)
fetchRealData(s, w, address, forceRefresh) ==
    LET w1 == IF forceRefresh THEN w ELSE loadFromCache(w, address)
        hit == ~forceRefresh /\ loadFromCacheHit(w.ls, address)
        cachedData == w.ls[getCacheKey(address)]
        memory == ~forceRefresh /\ s.lastFetchTime # NoTime
                  /\ now - s.lastFetchTime < CACHE_DURATION
    IN IF hit
       THEN [w1 EXCEPT !.c.realData = cachedData.realData,
                       !.c.walletProfile = cachedData.walletProfile,
                       !.c.lastFetchTime = cachedData.lastFetchTime,
                       !.c.isLoadingRealData = FALSE]
       ELSE IF memory
       THEN w1
       ELSE IF FreeId(w1.rq) = 0
       THEN [w1 EXCEPT !.overflow = TRUE]
       ELSE [w1 EXCEPT !.c.isLoadingRealData = TRUE,
                       !.rq = @ \cup {[id |-> FreeId(w1.rq), address |-> address]}]

\* useEffect(..., [searchedAddress]): reset the initial load flag
ResetEffect(s, w) ==
    IF s.searchedAddress # ""
    THEN [w EXCEPT !.c.hasInitiallyLoaded = FALSE,
                   !.c.walletProfile = NoProfile,
                   !.c.realData = NoData]
    ELSE w

\* useEffect(..., [searchedAddress, hasInitiallyLoaded, realData, fetchRealData,
\* loadFromCache]): the initial load
InitialLoadEffect(s, w) ==
    IF s.searchedAddress # "" /\ ~s.hasInitiallyLoaded
    THEN LET w1 == [w EXCEPT !.c.isLoading = TRUE, !.c.error = "null",
                             !.c.hasInitiallyLoaded = TRUE]
             hit == loadFromCacheHit(w1.ls, s.searchedAddress)
             cachedData == w1.ls[getCacheKey(s.searchedAddress)]
             w2 == loadFromCache(w1, s.searchedAddress)
         IN IF hit
            THEN [w2 EXCEPT !.c.realData = cachedData.realData,
                            !.c.walletProfile = cachedData.walletProfile,
                            !.c.lastFetchTime = cachedData.lastFetchTime,
                            !.c.isLoading = FALSE]
            ELSE LET w3 == fetchRealData(s, w2, s.searchedAddress, FALSE)
                 IN \* a call that returns before its await resolves at once,
                    \* and its .then sets isLoading
                    IF w3.rq = w2.rq THEN [w3 EXCEPT !.c.isLoading = FALSE] ELSE w3
    ELSE IF s.searchedAddress # "" /\ s.hasInitiallyLoaded /\ s.realData.kind = "null"
    THEN [w EXCEPT !.c.isLoading = FALSE, !.c.error = "null"]
    ELSE w

\* useEffect(..., [realData, createWalletProfile, walletProfile, searchedAddress,
\* saveToCache]): create the profile and save it
ProfileEffect(s, w) ==
    IF s.realData.kind # "null" /\ s.walletProfile.kind = "null"
    THEN LET profile == createWalletProfile(s.searchedAddress, s.realData)
             w1 == [w EXCEPT !.c.walletProfile = profile]
             w2 == saveToCache(w1, s.searchedAddress, s.realData, profile, now)
         IN [w2 EXCEPT !.c.lastFetchTime = now]
    ELSE w

\* Commit the render of state w.c and run the effects whose dependencies differ
\* from the previous render's (all of them on mount), then render again until
\* the state no longer changes.
RECURSIVE Render(_, _, _)
Render(prev, w, mount) ==
    LET s == w.c
        w1 == IF mount \/ s.searchedAddress # prev.searchedAddress
              THEN ResetEffect(s, w) ELSE w
        w2 == IF mount
                 \/ <<s.searchedAddress, s.hasInitiallyLoaded, s.realData, s.lastFetchTime>>
                    # <<prev.searchedAddress, prev.hasInitiallyLoaded, prev.realData,
                        prev.lastFetchTime>>
              THEN InitialLoadEffect(s, w1) ELSE w1
        w3 == IF mount
                 \/ <<s.realData, s.walletProfile, s.searchedAddress>>
                    # <<prev.realData, prev.walletProfile, prev.searchedAddress>>
              THEN ProfileEffect(s, w2) ELSE w2
    IN IF w3.c = s THEN w3 ELSE Render(s, w3, FALSE)

\* the variables after a handler of WalletProfiler that left the world w
Settle(w) ==
    /\ ~w.overflow
    /\ profiler' = w.c
    /\ localStorage' = w.ls
    /\ requests' = w.rq
    /\ reads' = w.reads

(***************************************************************************)
(* The sub-calls of the aggregation.  Each of the three fetches ends "ok"  *)
(* (the route answered with upstream data), "down" (the route answered,    *)
(* but the Etherscan client had given up behind it), "error" (the route's  *)
(* catch answered success: false), "rejected" (the fetch promise rejected) *)
(* or "unreadable" (the body is not JSON).                                 *)
(***************************************************************************)
Outcomes == {"ok", "down", "error", "rejected", "unreadable"}

\* EtherscanAPI.getWalletInfo: safe defaults instead of throwing
getWalletInfo(up) == IF up THEN "info" ELSE "defaults"

\* EtherscanAPI.getAccountTransactions -> getTransactionList: [] on error
getAccountTransactions(up) == IF up THEN "list" ELSE "empty"

\* EtherscanAPI.getTokenBalances: [] on error
getTokenBalances(up) == IF up THEN "list" ELSE "empty"

\* GET /api/etherscan/wallet, /transactions, /tokens: the JSON body
RouteBody(sub, outcome) ==
    IF outcome \in {"ok", "down"}
    THEN [success |-> TRUE,
          data |-> CASE sub = 1 -> getWalletInfo(outcome = "ok")
                     [] sub = 2 -> getAccountTransactions(outcome = "ok")
                     [] sub = 3 -> getTokenBalances(outcome = "ok")]
    ELSE [success |-> FALSE, data |-> "null"]

\* the three awaits of response.json(): a fulfilled fetch whose body is not
\* JSON throws
JsonThrows(o) == \E i \in 1..3 : o[i] = "unreadable"

\* walletData / transactionsData / tokensData
SubData(o, i) ==
    IF o[i] = "rejected" THEN [success |-> FALSE, data |-> "null"]
    ELSE RouteBody(i, o[i])

\* hasWalletData, hasTransactionData, hasTokenData ([] is truthy)
HasData(o, i) == SubData(o, i).success /\ SubData(o, i).data # "null"

\* newRealData
NewRealData(address, o) ==
    [kind |-> "data", address |-> address,
     wallet |-> IF HasData(o, 1) THEN SubData(o, 1).data ELSE "null",
     transactions |-> IF HasData(o, 2) THEN SubData(o, 2).data ELSE "empty",
     tokens |-> IF HasData(o, 3) THEN SubData(o, 3).data ELSE "empty"]

\* how the try block of fetchRealData ends
AggregateStatus(o) ==
    IF JsonThrows(o) THEN "ParseError"
    ELSE IF \E i \in 1..3 : HasData(o, i) THEN "success"
    ELSE "AllFailed"

\* fetchRealData with setLastFetchTime(Date.now()) moved to the finally block
fetchRealDataReturns_StampsAlways(w, address, o) ==
    LET status == AggregateStatus(o)
        w1 == IF status = "success"
              THEN [w EXCEPT !.c.realData = NewRealData(address, o)]
              ELSE [w EXCEPT !.c.error = status]
    IN [w1 EXCEPT !.c.lastFetchTime = now,
                  !.c.isLoadingRealData = FALSE, !.c.isLoading = FALSE]

\* fetchRealData after its await, and the .then of the effect that called it
fetchRealDataReturns(w, address, o) ==
    LET status == AggregateStatus(o)
        w1 == IF status = "success"
              THEN [w EXCEPT !.c.realData = NewRealData(address, o),
                             !.c.lastFetchTime = now]
              ELSE [w EXCEPT !.c.error = status]
    IN [w1 EXCEPT !.c.isLoadingRealData = FALSE, !.c.isLoading = FALSE]

(***************************************************************************)
(* TokenExplorer: the useBaseTokens hook.                                  *)
(***************************************************************************)
\* search terms the user types
Queries == {"clanker", "degen"}

\* the useState initial values of useBaseTokens
ExplorerInitial ==
    [tokens |-> "empty",
     searchResults |-> "",
     loading |-> TRUE,
     searchLoading |-> FALSE,
     error |-> "null",
     searchQuery |-> "",
     activeTab |-> "base",
     isHydrated |-> FALSE,
     lastFetchTime |-> NoTime,
     debounce |-> FALSE,
     currentPage |-> 1,
     tokensLength |-> 0,
     searchResultsLength |-> 0]

\* the component is not rendered: it has no state and no timer
ExplorerUnmounted == [ExplorerInitial EXCEPT !.loading = FALSE]

\* The world a handler of the hook acts on: its state c, the fetchTokens calls
\* and the searchTokens calls in flight, and the cache reads it made.
ExplorerWorld(c, tr, sr) ==
    [c |-> c, tr |-> tr, sr |-> sr, reads |-> <<>>, overflow |-> FALSE]

\* fetchTokens: the test of the cache, lastFetchTime being the render's
fetchTokensHit(s, forceRefresh) ==
    ~forceRefresh /\ s.lastFetchTime # NoTime
    /\ now - s.lastFetchTime < TOKEN_CACHE_DURATION

\* fetchTokens(endpoint, forceRefresh) up to its await
fetchTokens(s, w, forceRefresh) ==
    LET read == [cache |-> "tokens", key |-> "tokens", at |-> now,
                 present |-> s.lastFetchTime # NoTime,
                 timestamp |-> s.lastFetchTime,
                 hit |-> fetchTokensHit(s, forceRefresh),
                 value |-> NoEntry]
        w1 == IF forceRefresh THEN w ELSE [w EXCEPT !.reads = Append(@, read)]
    IN IF fetchTokensHit(s, forceRefresh)
       THEN w1
       ELSE [w1 EXCEPT !.c.loading = TRUE, !.c.error = "null", !.tr = @ + 1]

\* the smallest search id not in flight (0: none is free)
FreeSearchId(sr) ==
    LET free == (1..MaxSearches) \ {r.id : r \in sr}
    IN IF free = {} THEN 0 ELSE CHOOSE i \in free : \A j \in free : i <= j

\* searchTokens(query) up to its await (the queries of the model have no
\* blanks: query.trim() is query)
searchTokens(w, query) ==
    IF query = ""
    THEN [w EXCEPT !.c.searchResults = "", !.c.searchResultsLength = 0,
                   !.c.searchQuery = query]
    ELSE IF FreeSearchId(w.sr) = 0
    THEN [w EXCEPT !.overflow = TRUE]
    ELSE [w EXCEPT !.c.searchLoading = TRUE, !.c.error = "null",
                   !.sr = @ \cup {[id |-> FreeSearchId(w.sr), query |-> query]}]

\* useEffect(() => setIsHydrated(true), [])
HydrationEffect(s, w) == [w EXCEPT !.c.isHydrated = TRUE]

\* useEffect(..., [state.activeTab, state.searchQuery]): reset pagination
PaginationEffect(s, w) == [w EXCEPT !.c.currentPage = 1]

\* useEffect(..., [isHydrated, fetchBaseTokens]): the initial data fetch
InitialFetchEffect(s, w) == IF s.isHydrated THEN fetchTokens(s, w, FALSE) ELSE w

\* useEffect(..., [state.searchQuery, state.activeTab, searchTokens]): the
\* cleanup clears the pending timer, the effect sets a new one
DebounceEffect(s, w) == [w EXCEPT !.c.debounce = TRUE]

\* Commit the render of the hook's state and run the effects whose
\* dependencies changed, until the state no longer changes.
RECURSIVE ExplorerRender(_, _, _)
ExplorerRender(prev, w, mount) ==
    LET s == w.c
        w0 == IF mount THEN HydrationEffect(s, w) ELSE w
        w1 == IF mount \/ <<s.activeTab, s.searchQuery>>
                          # <<prev.activeTab, prev.searchQuery>>
              THEN PaginationEffect(s, w0) ELSE w0
        w2 == IF mount \/ <<s.isHydrated, s.lastFetchTime>>
                          # <<prev.isHydrated, prev.lastFetchTime>>
              THEN InitialFetchEffect(s, w1) ELSE w1
        w3 == IF mount \/ <<s.searchQuery, s.activeTab>>
                          # <<prev.searchQuery, prev.activeTab>>
              THEN DebounceEffect(s, w2) ELSE w2
    IN IF w3.c = s THEN w3 ELSE ExplorerRender(s, w3, FALSE)

\* the variables after a handler of the hook that left the world w
ExplorerSettle(w) ==
    /\ ~w.overflow
    /\ explorer' = w.c
    /\ tokenRequests' = w.tr
    /\ searchRequests' = w.sr
    /\ reads' = w.reads

\* how a fetch of /api/dexscreener/tokens ends
TokenOutcomes == {"ok", "httpError", "error", "rejected", "unreadable"}

\* the message of the error the try block throws
TokenError(outcome) ==
    CASE outcome = "httpError" -> "HttpError"
      [] outcome = "error" -> "Failed"
      [] outcome = "rejected" -> "NetworkError"
      [] outcome = "unreadable" -> "ParseError"

\* fetchTokens after its await
fetchTokensReturns(w, outcome) ==
    IF outcome = "ok"
    THEN [w EXCEPT !.c.tokens = "list", !.c.loading = FALSE, !.c.error = "null",
                   !.c.lastFetchTime = now]
    ELSE [w EXCEPT !.c.loading = FALSE, !.c.error = TokenError(outcome)]

\* searchTokens after its await
searchTokensReturns(w, query, outcome) ==
    IF outcome = "ok"
    THEN [w EXCEPT !.c.searchResults = query, !.c.searchLoading = FALSE,
                   !.c.error = "null"]
    ELSE [w EXCEPT !.c.searchLoading = FALSE, !.c.error = TokenError(outcome)]

\* getTotalTokens (sorting keeps the length of state.tokens)
getTotalTokens(s) ==
    IF s.activeTab = "search" THEN s.searchResultsLength ELSE s.tokensLength

\* Math.ceil(getTotalTokens() / state.tokensPerPage)
totalPages(s) == (getTotalTokens(s) + tokensPerPage - 1) \div tokensPerPage

nextPage(s, w) ==
    IF s.currentPage < totalPages(s)
    THEN [w EXCEPT !.c.currentPage = @ + 1] ELSE w

prevPage(s, w) ==
    IF s.currentPage > 1 THEN [w EXCEPT !.c.currentPage = @ - 1] ELSE w

goToPage(w, page_) == [w EXCEPT !.c.currentPage = page_]

\* the TokenGrid of the active tab is rendered, with its pagination controls
PaginationShown(s) ==
    /\ IF s.activeTab = "search" THEN ~s.searchLoading
       ELSE ~s.loading /\ s.error = "null"
    /\ totalPages(s) > 1

\* handleRefresh
handleRefresh(s, w) ==
    IF s.activeTab = "search"
    THEN IF s.searchQuery # "" THEN searchTokens(w, s.searchQuery) ELSE w
    ELSE fetchTokens(s, w, TRUE)

\* handleTabChange(value)
handleTabChange(s, w, value) ==
    LET w1 == [w EXCEPT !.c.activeTab = value]
    IN IF value = "search" THEN w1 ELSE fetchTokens(s, w1, FALSE)

(***************************************************************************)
(* The Etherscan client: rateLimit and makeRequest of the singleton.       *)
(***************************************************************************)
Callers == 1..NumCallers

\* a caller that has not called makeRequest
IdleCaller ==
    [pc |-> "idle", attempt |-> 0, wakeAt |-> NoTime, sentAt |-> NoTime,
     lastError |-> "null", onlyTimeouts |-> TRUE, result |-> "none"]

\* how an attempt's fetch ends before the abort timer: a body with status '1';
\* a body with another status (rate limit reached, invalid address, no
\* transactions found, another error); a thrown error whose message names
\* neither fetch nor network (any HTTP status that is not ok, 4xx and 5xx
\* alike, a body that is not JSON, an unknown format); a network error
Responses ==
    {"ok", "rateLimited", "invalidAddress", "noTransactions", "apiError",
     "httpError", "networkError"}

\* the bodies whose status is not '1'
ErrorBodies == {"rateLimited", "invalidAddress", "noTransactions", "apiError"}

\* the bodies by which the upstream reports that there is nothing to return
EmptyReports == {"invalidAddress", "noTransactions"}

\* data.message of an error body
errorMsg(response) ==
    IF response = "noTransactions" THEN "No transactions found" ELSE "NOTOK"

\* data.result of an error body ("[]": an empty array, not a string)
errorResult(response) ==
    CASE response = "rateLimited" -> "Max rate limit reached"
      [] response = "invalidAddress" -> "Error! Invalid address format"
      [] response = "noTransactions" -> "[]"
      [] response = "apiError" -> "Error! Missing Or invalid Action name"

\* typeof errorResult === 'string'
isString(errorResult_) == errorResult_ # "[]"

\* errorResult.includes('rate limit') || errorResult.includes('Max rate limit reached')
includesRateLimit(errorResult_) == errorResult_ = "Max rate limit reached"

\* errorResult.includes('Invalid address') || errorResult.includes('No transactions found')
includesNoData(errorResult_) == errorResult_ = "Error! Invalid address format"

\* 2^n
RECURSIVE Pow2(_)
Pow2(n) == IF n = 0 THEN 1 ELSE 2 * Pow2(n - 1)

Min(a, b) == IF a < b THEN a ELSE b

\* rateLimit(): the time to wait (0: none)
rateLimit(lrt) ==
    LET timeSinceLastRequest == now - lrt
    IN IF timeSinceLastRequest < minInterval
       THEN minInterval - timeSinceLastRequest ELSE 0

\* the fetch of the next attempt of the loop
fetch(c) ==
    [c EXCEPT !.pc = "fetch", !.attempt = @ + 1, !.sentAt = now, !.wakeAt = NoTime]

\* await new Promise(resolve => setTimeout(resolve, waitTime)); continue
wait(c, waitTime) ==
    [c EXCEPT !.pc = "backoff", !.wakeAt = now + waitTime, !.sentAt = NoTime]

\* the call rejects with error
throw(c, error) ==
    [c EXCEPT !.pc = "thrown", !.lastError = error, !.sentAt = NoTime]

\* the catch block on an AbortError with the test attempt < maxRetries - 1
catchAbortError_OneRetryFewer(c) ==
    LET c1 == [c EXCEPT !.lastError = "AbortError"]
    IN IF c.attempt < maxRetries - 1
       THEN wait(c1, 2000 * c.attempt)
       ELSE throw(c1, "RequestTimeout")

\* the abort of the fetch has no effect: the attempt goes on
catchAbortError_Ignored(c) == c

\* the catch block on an AbortError with the same wait before every retry
catchAbortError_SameWait(c) ==
    LET c1 == [c EXCEPT !.lastError = "AbortError"]
    IN IF c.attempt < maxRetries
       THEN wait(c1, 2000)
       ELSE throw(c1, "RequestTimeout")

\* makeRequest: the catch block on an AbortError
catchAbortError(c) ==
    LET c1 == [c EXCEPT !.lastError = "AbortError"]
    IN IF c.attempt < maxRetries
       THEN wait(c1, 2000 * c.attempt)
       ELSE throw(c1, "RequestTimeout")

\* makeRequest: the body of the loop once the fetch of the attempt has ended
afterFetch(c0, response) ==
    LET c == [c0 EXCEPT !.onlyTimeouts = FALSE]
        attempt == c.attempt
    IN CASE response = "ok" ->
               [c EXCEPT !.pc = "returned", !.sentAt = NoTime, !.result = "data"]
         [] response \in ErrorBodies ->
               IF errorMsg(response) = "NOTOK" /\ isString(errorResult(response))
                  /\ includesRateLimit(errorResult(response))
               THEN wait(c, Min(1000 * attempt, 5000))
               ELSE IF errorMsg(response) = "NOTOK" /\ isString(errorResult(response))
                       /\ includesNoData(errorResult(response))
               THEN [c EXCEPT !.pc = "returned", !.sentAt = NoTime, !.result = "empty"]
               ELSE IF attempt < maxRetries THEN wait(c, 1000 * attempt)
               ELSE throw(c, "ApiError")
         [] response = "networkError" ->
               IF attempt < maxRetries
               THEN wait([c EXCEPT !.lastError = "NetworkError"],
                         1000 * Pow2(attempt - 1))
               ELSE throw(c, "NetworkError")
         [] response = "httpError" ->
               IF attempt < maxRetries
               THEN fetch([c EXCEPT !.lastError = "HttpError"])
               ELSE throw(c, "HttpError")

\* makeRequest: the loop after a wait
afterWait(c) ==
    IF c.attempt < maxRetries THEN fetch(c)
    ELSE throw(c, IF c.lastError # "null" THEN c.lastError
                  ELSE "AllRetryAttemptsFailed")

\* the operations of the client that wrap one makeRequest call (getWalletInfo:
\* several, awaited one after the other)
Operations ==
    {"getTransactionList", "getTokenTransfers", "getETHBalance", "getGasPrice",
     "getBlockNumber", "getWalletInfo"}

\* what the operation resolves to when makeRequest returns no usable result,
\* which is also what its catch block returns
fallback(op) ==
    CASE op \in {"getTransactionList", "getTokenTransfers"} -> "[]"
      [] op \in {"getETHBalance", "getGasPrice"} -> "'0'"
      [] op = "getBlockNumber" -> "0"
      [] op = "getWalletInfo" -> getWalletInfo(FALSE)

\* the promise of operation op whose makeRequest call ended as c: the try
\* block on a return, the catch block on a throw
operation(op, c) ==
    IF c.pc = "thrown"
    THEN [status |-> "fulfilled", value |-> fallback(op)]
    ELSE [status |-> "fulfilled",
          value |-> IF c.result = "data"
                    THEN (IF op = "getWalletInfo" THEN getWalletInfo(TRUE) ELSE "result")
                    ELSE fallback(op)]

\* the earliest pending timer (NoTime: none)
Deadlines ==
    {callers[p].wakeAt : p \in {q \in Callers : callers[q].pc \in {"rateLimit", "backoff"}}}
    \cup {callers[p].sentAt + RequestTimeout : p \in {q \in Callers : callers[q].pc = "fetch"}}

\* the number of requests the callers cs have sent
RECURSIVE Fetches(_, _)
Fetches(cs, n) == IF n = 0 THEN 0 ELSE cs[n].attempt + Fetches(cs, n - 1)

\* the requests the callers may send in all: MaxFetches, and while a wallet
\* aggregation is followed to its end, as many as the retry loops allow
FetchCap == IF requests = {} THEN MaxFetches ELSE NumCallers * maxRetries

\* the variables after a step that leaves caller p as c
CallerBecomes(p, c) ==
    /\ Fetches([callers EXCEPT ![p] = c], NumCallers) <= FetchCap
    /\ callers' = [callers EXCEPT ![p] = c]
    /\ lastSent' = IF c.pc = "fetch" /\ c.attempt # callers[p].attempt
                   THEN now ELSE lastSent

(***************************************************************************)
(* The Home page: the identity search.                                     *)
(***************************************************************************)
\* ENS names / Basenames the user searches
Names == {"alice.eth"}

\* isValidEthereumAddress(searchInput)
isValidEthereumAddress(input) == input \in Addresses

\* isLikelyName(searchInput)
isLikelyName(input) == input \in Names

\* const isValidSearch = isValidAddress || isLikelyName(searchInput)
isValidSearch(input) == isValidEthereumAddress(input) \/ isLikelyName(input)

\* SocialProfile[]: the profiles found for an address ([]: none)
NoProfiles == [kind |-> "empty", address |-> ""]

\* the useState initial values of Home
PageInitial ==
    [searchInput |-> "",
     searchedAddress |-> "",
     originalSearchTerm |-> "",
     userProfiles |-> NoProfiles,
     hasSearched |-> FALSE,
     isLoading |-> FALSE,
     searchAbortController |-> "null"]

\* the smallest search id not in flight (0: none is free)
FreePageSearchId(ss) ==
    LET free == (1..MaxPageSearches) \ {r.id : r \in ss}
    IN IF free = {} THEN 0 ELSE CHOOSE i \in free : \A j \in free : i <= j

\* handleSearch up to its first await: the page state and the call in flight
handleSearch(s, id) ==
    LET s1 == [s EXCEPT !.isLoading = TRUE, !.originalSearchTerm = s.searchInput]
    IN IF isValidEthereumAddress(s.searchInput)
       THEN [page |-> [s1 EXCEPT !.searchedAddress = s.searchInput],
             search |-> [id |-> id, stage |-> "getSocialProfiles",
                         address |-> s.searchInput,
                         cancelled |-> FALSE, aborted |-> FALSE]]
       ELSE [page |-> s1,
             search |-> [id |-> id, stage |-> "resolveAddress", address |-> "",
                         cancelled |-> FALSE, aborted |-> FALSE]]

\* handleSearch after await resolveAddress (resolved = "": not resolved)
afterResolveAddress(s, resolved) ==
    IF resolved = ""
    THEN [s EXCEPT !.isLoading = FALSE, !.hasSearched = TRUE,
                   !.userProfiles = NoProfiles]
    ELSE [s EXCEPT !.searchedAddress = resolved]

\* handleSearch after await Promise.race([profilesPromise, timeoutPromise])
afterGetSocialProfiles(s, address, outcome) ==
    LET s1 == CASE outcome = "profiles" ->
                     [s EXCEPT !.userProfiles = [kind |-> "profiles", address |-> address],
                               !.hasSearched = TRUE]
                [] outcome = "none" ->
                     [s EXCEPT !.userProfiles = NoProfiles, !.hasSearched = TRUE]
                [] outcome \in {"timeout", "error"} -> s
    IN [s1 EXCEPT !.isLoading = FALSE]

\* cancelSearch: the page state
cancelSearch(s) ==
    [s EXCEPT !.searchAbortController = "null", !.isLoading = FALSE]

\* cancelSearch: a call in flight when the user cancels; abort() reaches it
\* only through a controller held in searchAbortController
cancelled(s, r) ==
    [r EXCEPT !.cancelled = TRUE,
              !.aborted = @ \/ s.searchAbortController # "null"]

(***************************************************************************)
(* The DEXScreener tokens route (GET /api/dexscreener/tokens).             *)
(***************************************************************************)
\* a number the upstream left out (volume?.h24, liquidity?.usd)
Undefined == -1

\* DexScreenerToken: the pairs the upstream has, each with its pairAddress,
\* baseToken.address, chainId, url, volume.h24 and liquidity.usd
DexPairs ==
    { [pairAddress |-> "p1", address |-> "0xAA", chainId |-> "base",
       url |-> "https://dexscreener.com/base/p1", volume |-> 1, liquidity |-> 2],
      [pairAddress |-> "p2", address |-> "0xaa", chainId |-> "base",
       url |-> "https://dexscreener.com/base/p2", volume |-> 2,
       liquidity |-> Undefined],
      [pairAddress |-> "p3", address |-> "0xaa", chainId |-> "base",
       url |-> "https://dexscreener.com/base/p3", volume |-> 2, liquidity |-> 3],
      [pairAddress |-> "p4", address |-> "0xbb", chainId |-> "base",
       url |-> "https://dexscreener.com/base/p4", volume |-> Undefined,
       liquidity |-> Undefined],
      [pairAddress |-> "p5", address |-> "0xbb", chainId |-> "ethereum",
       url |-> "https://dexscreener.com/ethereum/p5?ref=base", volume |-> 3,
       liquidity |-> 3],
      [pairAddress |-> "p6", address |-> "0xcc", chainId |-> "ethereum",
       url |-> "https://dexscreener.com/ethereum/p6", volume |-> 1, liquidity |-> 1] }

\* the sequences over S of at most n elements
SeqsUpTo(S, n) == UNION { [1..k -> S] : k \in 0..n }

\* KNOWN_BASE_TOKENS: the addresses of the default and trending lists; the
\* source lists several addresses twice
KNOWN_BASE_TOKENS == <<"0xaa", "0xbb", "0xaa">>

\* popularSearches of getAllBaseTokens
popularSearches == <<"brett">>

\* the value of the search parameter: absent, or a query
SearchParams == {"", "brett"}

\* the answers of the upstream: data.pairs of /latest/dex/search and of
\* /latest/dex/tokens/<address> (no pairs: also a failed request)
NoUpstream ==
    [search |-> <<>>, tokens |-> [a \in {"0xaa", "0xbb"} |-> <<>>]]

Upstreams ==
    [search : SeqsUpTo(DexPairs, MaxSearchPairs),
     tokens : [{"0xaa", "0xbb"} -> SeqsUpTo(DexPairs, MaxTokenPairs)]]

RouteIdle ==
    [op |-> "none", trending |-> FALSE, search |-> "", pairs |-> <<>>,
     dexTokens |-> <<>>, tokens |-> <<>>]

\* x || 0
orZero(x) == IF x = Undefined THEN 0 ELSE x

\* pair.volume?.h24 || 0
h24(pair) == orZero(pair.volume)

\* pair.liquidity?.usd || 0
usd(pair) == orZero(pair.liquidity)

\* url.includes('base')
includesBase(url) ==
    url \in {"https://dexscreener.com/base/p1", "https://dexscreener.com/base/p2",
             "https://dexscreener.com/base/p3", "https://dexscreener.com/base/p4",
             "https://dexscreener.com/ethereum/p5?ref=base"}

\* Array.prototype.slice(0, n)
slice(s, n) == SubSeq(s, 1, Min(n, Len(s)))

\* Array.prototype.sort with the comparator (a, b) => (b[field] || 0) -
\* (a[field] || 0): descending, stable
insertSorted(sorted, x, field) ==
    LET n == Cardinality({i \in DOMAIN sorted : orZero(sorted[i][field]) >= orZero(x[field])})
    IN SubSeq(sorted, 1, n) \o <<x>> \o SubSeq(sorted, n + 1, Len(sorted))

RECURSIVE sort(_, _)
sort(s, field) ==
    IF s = <<>> THEN <<>>
    ELSE insertSorted(sort(SubSeq(s, 1, Len(s) - 1), field), s[Len(s)], field)

\* tokenMap.get(tokenAddress) finds an entry
mapHas(tokenMap, tokenAddress) ==
    \E i \in DOMAIN tokenMap : toLowerCase(tokenMap[i].address) = tokenAddress

mapGet(tokenMap, tokenAddress) ==
    tokenMap[CHOOSE i \in DOMAIN tokenMap :
                 toLowerCase(tokenMap[i].address) = tokenAddress]

\* tokenMap.set(tokenAddress, pair): a Map keeps the place of a key it has
mapSet(tokenMap, tokenAddress, pair) ==
    IF mapHas(tokenMap, tokenAddress)
    THEN [i \in DOMAIN tokenMap |->
             IF toLowerCase(tokenMap[i].address) = tokenAddress THEN pair
             ELSE tokenMap[i]]
    ELSE Append(tokenMap, pair)

\* the test of removeDuplicates on a pair whose address the map has
replaces_OnTie(pair, existingPair) == h24(pair) >= h24(existingPair)

replaces(pair, existingPair) == h24(pair) > h24(existingPair)

\* Array.from(tokenMap.values())
values_Reversed(tokenMap) ==
    [i \in DOMAIN tokenMap |-> tokenMap[Len(tokenMap) + 1 - i]]

values(tokenMap) == tokenMap

\* the body of pairs.forEach in removeDuplicates
RECURSIVE forEach(_)
forEach(pairs) ==
    IF pairs = <<>> THEN <<>>
    ELSE LET tokenMap == forEach(SubSeq(pairs, 1, Len(pairs) - 1))
             pair == pairs[Len(pairs)]
             tokenAddress == toLowerCase(pair.address)
         IN IF \/ ~mapHas(tokenMap, tokenAddress)
               \/ replaces(pair, mapGet(tokenMap, tokenAddress))
            THEN mapSet(tokenMap, tokenAddress, pair)
            ELSE tokenMap

removeDuplicates(pairs) == values(forEach(pairs))

\* searchBaseTokens: the pairs of the search answer that pass the Base
\* filter, without duplicates
searchBaseTokens(up, query) ==
    LET basePairs == SelectSeq(up.search,
                         LAMBDA pair : \/ pair.chainId = "base"
                                       \/ pair.chainId = "8453"
                                       \/ includesBase(pair.url))
    IN removeDuplicates(basePairs)

\* the body of KNOWN_BASE_TOKENS.map: the best Base pair of the address by
\* field, or nothing (null, filtered out afterwards)
tokenPromise(up, address, field) ==
    LET basePairs == SelectSeq(up.tokens[address], LAMBDA pair : pair.chainId = "base")
    IN IF basePairs = <<>> THEN <<>> ELSE <<sort(basePairs, field)[1]>>

\* tokenResults without its nulls
RECURSIVE tokenResults(_, _, _)
tokenResults(up, n, field) ==
    IF n = 0 THEN <<>>
    ELSE tokenResults(up, n - 1, field) \o tokenPromise(up, KNOWN_BASE_TOKENS[n], field)

getTrendingBaseTokens(up) ==
    slice(sort(tokenResults(up, Len(KNOWN_BASE_TOKENS), "volume"), "volume"),
          TrendingLimit)

\* searchResults.flat()
RECURSIVE additionalTokens(_, _)
additionalTokens(up, n) ==
    IF n = 0 THEN <<>>
    ELSE additionalTokens(up, n - 1)
         \o slice(searchBaseTokens(up, popularSearches[n]), SearchSlice)

\* allTokens of getAllBaseTokens
allTokens(up) ==
    sort(tokenResults(up, Len(KNOWN_BASE_TOKENS), "liquidity"), "liquidity")
    \o additionalTokens(up, Len(popularSearches))

getAllBaseTokens(up) ==
    slice(sort(removeDuplicates(allTokens(up)), "liquidity"), DefaultLimit)

convertToStandardFormat(dexToken) ==
    [id |-> toLowerCase(dexToken.address),
     contract_address |-> dexToken.address,
     total_volume |-> h24(dexToken),
     dex_data |-> [pairAddress |-> dexToken.pairAddress,
                   liquidity |-> dexToken.liquidity,
                   url |-> dexToken.url]]

\* the dexTokens of GET for the parameters trending and search
dexTokensOf(up, trending, search) ==
    IF trending THEN getTrendingBaseTokens(up)
    ELSE IF search # "" THEN searchBaseTokens(up, search)
    ELSE getAllBaseTokens(up)

(***************************************************************************)
(* Promise.all and Promise.allSettled: the promises settle in any order,   *)
(* the array of results is in the order of the promises.                   *)
(***************************************************************************)
\* the results in the order in which the promises settled
promiseAll_InCompletionOrder(settled, order) ==
    [k \in DOMAIN settled |-> settled[order[k]]]

promiseAll(settled, order) == settled

\* the promises of a route.op ("allSettled": the three fetches of
\* fetchRealData, "all": the tokenPromises of getAllBaseTokens), none settled
Gathering(op) ==
    [op |-> op, order |-> <<>>, dexTokens |-> <<>>,
     settled |-> IF op = "allSettled" THEN <<"pending", "pending", "pending">>
                 ELSE <<<<>>, <<>>, <<>>>>]

\* promise i has not settled
Pending(i) == \A k \in DOMAIN route.order : route.order[k] # i

\* tokenResults.filter(pair !== null)
knownTokens(tokenResults_) ==
    sort(tokenResults_[1] \o tokenResults_[2] \o tokenResults_[3], "liquidity")

(***************************************************************************)
(* Formatting of Etherscan records (etherscan.ts and the tokens route).    *)
(***************************************************************************)
\* a string field the upstream left out
undefined == "undefined"

\* JavaScript numbers: NaN, or the decimal number num / 10^exp
NaN == [nan |-> TRUE, num |-> 0, exp |-> 0]
Number(n) == [nan |-> FALSE, num |-> n, exp |-> 0]

NoRaw == [tokenDecimal |-> "18", value |-> "0", wei |-> [m |-> 0, e |-> 0]]

\* the records followed here: a token transfer's tokenDecimal and value, and
\* an amount of wei m * 10^e (none half way between two millionths of an ether)
RawRecords ==
    [tokenDecimal : {undefined, "", "0", "6", "18"},
     value : {"0", "1500000", "25"},
     wei : [m : {0, 1, 2, 12}, e : {0, 11, 12, 18}]]

Unformatted ==
    [op |-> "none", tokenDecimal |-> NaN, value |-> NaN, eth |-> 0]

\* parseInt(string), parseFloat(string): NaN unless the string starts with
\* digits
parseInt(string) ==
    CASE string = "0" -> Number(0)
      [] string = "6" -> Number(6)
      [] string = "18" -> Number(18)
      [] string = "25" -> Number(25)
      [] string = "1500000" -> Number(1500000)
      [] OTHER -> NaN

\* string || '18': the empty string is falsy as undefined is
orEighteen(string) == IF string \in {undefined, ""} THEN "18" ELSE string

\* x / Math.pow(10, decimals)
dividedByPow10(x, decimals) ==
    IF x.nan \/ decimals.nan THEN NaN
    ELSE [nan |-> FALSE, num |-> x.num, exp |-> x.exp + decimals.num]

\* formatTokenTransfer: tokenDecimal and value of the result
formatTokenTransfer(transfer) ==
    LET decimals == parseInt(transfer.tokenDecimal)
        value == dividedByPow10(parseInt(transfer.value), decimals)
    IN [tokenDecimal |-> decimals, value |-> value]

\* getTokenBalances: the EtherscanTokenBalance made from a transfer
getTokenBalance(transfer) ==
    [balance |-> "0", tokenDecimal |-> orEighteen(transfer.tokenDecimal)]

\* GET /api/etherscan/tokens: an element of formattedData
tokensRoute(type, transfer) ==
    IF type = "balances"
    THEN LET balance == getTokenBalance(transfer)
         IN [tokenDecimal |-> parseInt(balance.tokenDecimal),
             value |-> dividedByPow10(parseInt(balance.balance),
                                      parseInt(balance.tokenDecimal))]
    ELSE formatTokenTransfer(transfer)

\* 10^n
RECURSIVE Pow10(_)
Pow10(n) == IF n = 0 THEN 1 ELSE 10 * Pow10(n - 1)

\* (wei / Math.pow(10, 18)).toFixed(6): the number of millionths of an ether,
\* rounded to the nearest (below 10^-9 of a millionth it is 0)
toFixed6(wei) ==
    IF wei.e >= EtherDigits - DisplayDigits
    THEN wei.m * Pow10(wei.e - (EtherDigits - DisplayDigits))
    ELSE IF EtherDigits - DisplayDigits - wei.e > 9 THEN 0
    ELSE (2 * wei.m + Pow10(EtherDigits - DisplayDigits - wei.e))
             \div (2 * Pow10(EtherDigits - DisplayDigits - wei.e))

\* the wei that the displayed amount of millionths stands for is the amount wei
backConverted(millionths, wei) ==
    IF wei.e >= EtherDigits - DisplayDigits
    THEN millionths = wei.m * Pow10(wei.e - (EtherDigits - DisplayDigits))
    ELSE IF EtherDigits - DisplayDigits - wei.e > 9 THEN millionths = 0 /\ wei.m = 0
    ELSE millionths * Pow10(EtherDigits - DisplayDigits - wei.e) = wei.m

(***************************************************************************)
(* Actions.                                                                *)
(***************************************************************************)
Init ==
    /\ now = CACHE_DURATION
    /\ ticks = 0
    /\ view = "none"
    /\ localStorage = [k \in CacheKeys |-> NoEntry]
    /\ profiler = ProfilerUnmounted
    /\ requests = {}
    /\ explorer = ExplorerUnmounted
    /\ tokenRequests = 0
    /\ searchRequests = {}
    /\ reads = <<>>
    /\ lastRequestTime = 0
    /\ callers = [p \in Callers |-> IdleCaller]
    /\ lastSent = NoTime
    /\ page = PageInitial
    /\ searches = {}
    /\ upstream = NoUpstream
    /\ route = RouteIdle
    /\ raw = NoRaw
    /\ formatted = Unformatted

\* an unmounted component has no state, and the continuations of its requests
\* update nothing
ProfilerGone ==
    /\ profiler' = ProfilerUnmounted
    /\ requests' = {}

ExplorerGone ==
    /\ explorer' = ExplorerUnmounted
    /\ tokenRequests' = 0
    /\ searchRequests' = {}

\* page.tsx renders <WalletProfiler searchedAddress=address>: the component mounts
ShowProfiler(address) ==
    /\ view # "profiler"
    /\ view' = "profiler"
    /\ Settle(Render(ProfilerInitial(address),
                     World(ProfilerInitial(address), localStorage, {}), TRUE))
    /\ ExplorerGone
    /\ UNCHANGED <<now, ticks, clientVars, pageVars, dexVars, formatVars>>

\* handleSearch: setSearchedAddress while the profiler stays rendered
ChangeAddress(address) ==
    /\ view = "profiler"
    /\ address # profiler.searchedAddress
    /\ Settle(Render(profiler,
                     World([profiler EXCEPT !.searchedAddress = address],
                           localStorage, requests), FALSE))
    /\ UNCHANGED <<now, ticks, view, explorerVars, clientVars, pageVars, dexVars, formatVars>>

\* page.tsx renders <TokenExplorer />: the component mounts
ShowTokens ==
    /\ view # "tokens"
    /\ view' = "tokens"
    /\ ExplorerSettle(ExplorerRender(ExplorerInitial,
                                     ExplorerWorld(ExplorerInitial, 0, {}), TRUE))
    /\ ProfilerGone
    /\ UNCHANGED <<now, ticks, localStorage, clientVars, pageVars, dexVars, formatVars>>

\* the page renders neither component (another tab, or no profiles)
Leave ==
    /\ view # "none"
    /\ view' = "none"
    /\ ProfilerGone
    /\ ExplorerGone
    /\ reads' = <<>>
    /\ UNCHANGED <<now, ticks, localStorage, clientVars, pageVars, dexVars, formatVars>>

\* Promise.allSettled of request r settles with outcomes o
FetchReturns(r, o) ==
    /\ view = "profiler"
    /\ r \in requests
    /\ LET w0 == World(profiler, localStorage, requests \ {r})
           w1 == fetchRealDataReturns(w0, r.address, o)
       IN Settle(Render(profiler, w1, FALSE))
    /\ UNCHANGED <<now, ticks, view, explorerVars, clientVars, pageVars, dexVars, formatVars>>

\* the fetch of a fetchTokens call ends
TokensReturn(outcome) ==
    /\ view = "tokens"
    /\ tokenRequests > 0
    /\ LET w0 == ExplorerWorld(explorer, tokenRequests - 1, searchRequests)
       IN ExplorerSettle(ExplorerRender(explorer, fetchTokensReturns(w0, outcome), FALSE))
    /\ UNCHANGED <<now, ticks, view, localStorage, profilerVars, clientVars, pageVars, dexVars, formatVars>>

\* the Refresh button (disabled while loading), or Retry of the error state
Refresh ==
    /\ view = "tokens"
    /\ ~explorer.loading
    /\ LET w0 == ExplorerWorld(explorer, tokenRequests, searchRequests)
       IN ExplorerSettle(ExplorerRender(explorer, handleRefresh(explorer, w0), FALSE))
    /\ UNCHANGED <<now, ticks, view, localStorage, profilerVars, clientVars, pageVars, dexVars, formatVars>>

\* a tab trigger of the explorer (disabled while its list loads)
TabChange(value) ==
    /\ view = "tokens"
    /\ value # explorer.activeTab
    /\ IF value = "base" THEN ~explorer.loading ELSE ~explorer.searchLoading
    /\ LET w0 == ExplorerWorld(explorer, tokenRequests, searchRequests)
       IN ExplorerSettle(ExplorerRender(explorer,
                                        handleTabChange(explorer, w0, value), FALSE))
    /\ UNCHANGED <<now, ticks, view, localStorage, profilerVars, clientVars, pageVars, dexVars, formatVars>>

\* the search input's onChange, and its clear button
SetSearchQuery(query) ==
    /\ view = "tokens"
    /\ explorer.activeTab = "search"
    /\ query # explorer.searchQuery
    /\ LET c == IF query = ""
                THEN [explorer EXCEPT !.searchQuery = "", !.searchResults = "",
                                      !.searchResultsLength = 0]
                ELSE [explorer EXCEPT !.searchQuery = query]
           w0 == ExplorerWorld(c, tokenRequests, searchRequests)
       IN ExplorerSettle(ExplorerRender(explorer, w0, FALSE))
    /\ UNCHANGED <<now, ticks, view, localStorage, profilerVars, clientVars, pageVars, dexVars, formatVars>>

\* the debounce timer fires
DebounceFires ==
    /\ view = "tokens"
    /\ explorer.debounce
    /\ LET c == [explorer EXCEPT !.debounce = FALSE]
           w0 == ExplorerWorld(c, tokenRequests, searchRequests)
           w1 == IF explorer.searchQuery # "" /\ explorer.activeTab = "search"
                 THEN searchTokens(w0, explorer.searchQuery) ELSE w0
       IN ExplorerSettle(ExplorerRender(c, w1, FALSE))
    /\ UNCHANGED <<now, ticks, view, localStorage, profilerVars, clientVars, pageVars, dexVars, formatVars>>

\* the fetch of searchTokens call r ends
SearchReturns(r, outcome) ==
    /\ view = "tokens"
    /\ r \in searchRequests
    /\ LET w0 == ExplorerWorld(explorer, tokenRequests, searchRequests \ {r})
       IN ExplorerSettle(ExplorerRender(explorer,
                                        searchTokensReturns(w0, r.query, outcome), FALSE))
    /\ UNCHANGED <<now, ticks, view, localStorage, profilerVars, clientVars, pageVars, dexVars, formatVars>>

\* time passes
Tick(d) ==
    /\ ticks < MaxTicks
    /\ ticks' = ticks + 1
    /\ now' = now + d
    /\ reads' = <<>>
    /\ UNCHANGED <<view, localStorage, profilerVars, explorerVars, clientVars, pageVars, dexVars, formatVars>>

Deltas == {1, TOKEN_CACHE_DURATION - 1, CACHE_DURATION - 1}

\* the ways an aggregation ends that the cache can tell apart: complete,
\* partial, every sub-call failed, a body that is not JSON
CacheOutcomes ==
    {<<"ok", "ok", "ok">>, <<"ok", "rejected", "down">>,
     <<"rejected", "error", "rejected">>, <<"ok", "unreadable", "ok">>}

Next ==
    \/ \E a \in Addresses : ShowProfiler(a)
    \/ \E a \in Addresses : ChangeAddress(a)
    \/ ShowTokens
    \/ Leave
    \/ \E r \in requests : \E o \in CacheOutcomes : FetchReturns(r, o)
    \/ \E o \in TokenOutcomes : TokensReturn(o)
    \/ Refresh
    \/ \E v \in {"base", "search"} : TabChange(v)
    \/ \E d \in Deltas : Tick(d)

Spec == Init /\ [][Next]_vars

\* The aggregation under every combination of sub-call outcomes, at a fixed time.
NextAggregate ==
    \/ \E a \in Addresses : ShowProfiler(a)
    \/ \E a \in Addresses : ChangeAddress(a)
    \/ Leave
    \/ \E r \in requests : \E o \in [1..3 -> Outcomes] : FetchReturns(r, o)

SpecAggregate == Init /\ [][NextAggregate]_vars

\* The token explorer alone, with its search tab.
NextExplorer ==
    \/ ShowTokens
    \/ Leave
    \/ \E o \in TokenOutcomes : TokensReturn(o)
    \/ Refresh
    \/ \E v \in {"base", "search"} : TabChange(v)
    \/ \E q \in Queries \cup {""} : SetSearchQuery(q)
    \/ DebounceFires
    \/ \E r \in searchRequests : \E o \in TokenOutcomes : SearchReturns(r, o)
    \/ \E d \in Deltas : Tick(d)

SpecExplorer == Init /\ [][NextExplorer]_vars

\* a route calls makeRequest: rateLimit up to its await, and the first fetch
\* if it does not wait (the callers are numbered in the order of their calls)
Call(p) ==
    /\ callers[p].pc = "idle"
    /\ \A q \in 1..(p - 1) : callers[q].pc # "idle"
    /\ IF rateLimit(lastRequestTime) > 0
       THEN /\ CallerBecomes(p, [callers[p] EXCEPT
                                   !.pc = "rateLimit",
                                   !.wakeAt = now + rateLimit(lastRequestTime)])
            /\ UNCHANGED lastRequestTime
       ELSE /\ lastRequestTime' = now
            /\ CallerBecomes(p, fetch(callers[p]))
    /\ UNCHANGED <<now, ticks, view, localStorage, profilerVars, explorerVars, reads,
                   pageVars, dexVars, formatVars>>

\* the timer of rateLimit fires: lastRequestTime is written, the loop starts
RateLimitWakes(p) ==
    /\ callers[p].pc = "rateLimit"
    /\ callers[p].wakeAt = now
    /\ lastRequestTime' = now
    /\ CallerBecomes(p, fetch(callers[p]))
    /\ UNCHANGED <<now, ticks, view, localStorage, profilerVars, explorerVars, reads,
                   pageVars, dexVars, formatVars>>

\* the fetch of caller p ends before the abort timer
Responds(p, response) ==
    /\ callers[p].pc = "fetch"
    /\ callers[p].sentAt < now
    /\ now < callers[p].sentAt + RequestTimeout
    /\ CallerBecomes(p, afterFetch(callers[p], response))
    /\ UNCHANGED <<now, ticks, view, localStorage, profilerVars, explorerVars, reads,
                   lastRequestTime, pageVars, dexVars, formatVars>>

\* the abort timer of caller p's fetch fires
TimesOut(p) ==
    /\ callers[p].pc = "fetch"
    /\ now = callers[p].sentAt + RequestTimeout
    /\ CallerBecomes(p, catchAbortError(callers[p]))
    /\ UNCHANGED <<now, ticks, view, localStorage, profilerVars, explorerVars, reads,
                   lastRequestTime, pageVars, dexVars, formatVars>>

\* the timer of a wait before the next attempt fires
BackoffWakes(p) ==
    /\ callers[p].pc = "backoff"
    /\ callers[p].wakeAt = now
    /\ CallerBecomes(p, afterWait(callers[p]))
    /\ UNCHANGED <<now, ticks, view, localStorage, profilerVars, explorerVars, reads,
                   lastRequestTime, pageVars, dexVars, formatVars>>

\* time passes, up to the earliest pending timer
Advance(d) ==
    /\ ticks < MaxAdvances
    /\ d > 0
    /\ \A t \in Deadlines : now + d <= t
    /\ now' = now + d
    /\ ticks' = ticks + 1
    /\ UNCHANGED <<view, localStorage, profilerVars, explorerVars, reads, clientVars, pageVars, dexVars, formatVars>>

NextClient ==
    \/ \E p \in Callers : Call(p)
    \/ \E p \in Callers : RateLimitWakes(p)
    \/ \E p \in Callers : \E response \in Responses : Responds(p, response)
    \/ \E p \in Callers : TimesOut(p)
    \/ \E p \in Callers : BackoffWakes(p)
    \/ \E d \in {Latency} \cup {t - now : t \in Deadlines} : Advance(d)

SpecClient == Init /\ [][NextClient]_vars

\* the search input's onChange
SetSearchInput(input) ==
    /\ input # page.searchInput
    /\ page' = [page EXCEPT !.searchInput = input]
    /\ UNCHANGED <<now, ticks, view, localStorage, profilerVars, explorerVars, reads,
                   clientVars, searches, dexVars, formatVars>>

\* the Search button, or Enter in the input, while no search is loading
HandleSearch ==
    /\ ~page.isLoading
    /\ isValidSearch(page.searchInput)
    /\ FreePageSearchId(searches) # 0
    /\ LET started == handleSearch(page, FreePageSearchId(searches))
       IN /\ page' = started.page
          /\ searches' = searches \cup {started.search}
    /\ UNCHANGED <<now, ticks, view, localStorage, profilerVars, explorerVars, reads,
                   clientVars, dexVars, formatVars>>

\* the button while a search is loading
CancelSearch ==
    /\ page.isLoading
    /\ isValidSearch(page.searchInput)
    /\ page' = cancelSearch(page)
    /\ searches' = {cancelled(page, r) : r \in searches}
    /\ UNCHANGED <<now, ticks, view, localStorage, profilerVars, explorerVars, reads,
                   clientVars, dexVars, formatVars>>

\* resolveAddress of search r settles
Resolves(r, resolved) ==
    /\ r \in searches
    /\ r.stage = "resolveAddress"
    /\ ~r.aborted
    /\ page' = afterResolveAddress(page, resolved)
    /\ searches' = (searches \ {r})
                   \cup (IF resolved = "" THEN {}
                         ELSE {[r EXCEPT !.stage = "getSocialProfiles",
                                         !.address = resolved]})
    /\ UNCHANGED <<now, ticks, view, localStorage, profilerVars, explorerVars, reads,
                   clientVars, dexVars, formatVars>>

\* the race of getSocialProfiles and the 30 s timer of search r settles
ProfilesReturn(r, outcome) ==
    /\ r \in searches
    /\ r.stage = "getSocialProfiles"
    /\ ~r.aborted
    /\ page' = afterGetSocialProfiles(page, r.address, outcome)
    /\ searches' = searches \ {r}
    /\ UNCHANGED <<now, ticks, view, localStorage, profilerVars, explorerVars, reads,
                   clientVars, dexVars, formatVars>>

ProfileOutcomes == {"profiles", "none", "timeout", "error"}

NextPage ==
    \/ \E input \in Addresses \cup Names \cup {""} : SetSearchInput(input)
    \/ HandleSearch
    \/ CancelSearch
    \/ \E r \in searches : \E resolved \in Addresses \cup {""} : Resolves(r, resolved)
    \/ \E r \in searches : \E outcome \in ProfileOutcomes : ProfilesReturn(r, outcome)

SpecPage == Init /\ [][NextPage]_vars

(***************************************************************************)
(* The DEXScreener route: removeDuplicates on its own, and the requests.   *)
(***************************************************************************)
\* the application starts elsewhere; the route's state starts as given
InitOther ==
    /\ now = CACHE_DURATION
    /\ ticks = 0
    /\ view = "none"
    /\ localStorage = [k \in CacheKeys |-> NoEntry]
    /\ profiler = ProfilerUnmounted
    /\ requests = {}
    /\ explorer = ExplorerUnmounted
    /\ tokenRequests = 0
    /\ searchRequests = {}
    /\ reads = <<>>
    /\ lastRequestTime = 0
    /\ callers = [p \in Callers |-> IdleCaller]
    /\ lastSent = NoTime
    /\ page = PageInitial
    /\ searches = {}

InitDedup ==
    /\ InitOther
    /\ raw = NoRaw
    /\ formatted = Unformatted
    /\ upstream = NoUpstream
    /\ \E pairs \in SeqsUpTo(DexPairs, MaxPairs) :
           route = [RouteIdle EXCEPT !.pairs = pairs]

RemoveDuplicates ==
    /\ route.op = "none"
    /\ route' = [route EXCEPT !.op = "removeDuplicates",
                              !.dexTokens = removeDuplicates(route.pairs)]
    /\ UNCHANGED <<now, ticks, view, localStorage, profilerVars, explorerVars, reads,
                   clientVars, pageVars, upstream, formatVars>>

NextDedup == RemoveDuplicates

SpecDedup == InitDedup /\ [][NextDedup]_vars

InitDex ==
    /\ InitOther
    /\ raw = NoRaw
    /\ formatted = Unformatted
    /\ upstream \in Upstreams
    /\ route = RouteIdle

\* the route keeps nothing from one request to the next: one request is followed
GET(trending, search) ==
    /\ route.op = "none"
    /\ LET dexTokens == dexTokensOf(upstream, trending, search)
       IN route' = [route EXCEPT
              !.op = "GET", !.trending = trending, !.search = search,
              !.dexTokens = dexTokens,
              !.tokens = [i \in DOMAIN dexTokens |->
                             convertToStandardFormat(dexTokens[i])]]
    /\ UNCHANGED <<now, ticks, view, localStorage, profilerVars, explorerVars, reads,
                   clientVars, pageVars, upstream, formatVars>>

NextDex == \E trending \in BOOLEAN : \E search \in SearchParams : GET(trending, search)

SpecDex == InitDex /\ [][NextDex]_vars

(***************************************************************************)
(* One wallet aggregation with its three routes, each calling the client.  *)
(***************************************************************************)
\* the route of sub-call p has ended: its makeRequest call returned or threw
Settled(p) == callers[p].pc \in {"returned", "thrown"}

\* the outcome of sub-call p for the page: the routes answer success, with
\* the client's defaults when the upstream call gave nothing
SubOutcome(p) ==
    IF callers[p].pc = "returned" /\ callers[p].result = "data" THEN "ok" ELSE "down"

\* the handler of the route of sub-call p runs and calls the client
RouteCalls(p) ==
    /\ requests # {}
    /\ Call(p)

\* Promise.allSettled: fetchRealData goes on once every sub-call has settled
AllSettled(r) ==
    /\ \A p \in Callers : Settled(p)
    /\ FetchReturns(r, [p \in 1..3 |-> SubOutcome(p)])

\* the answers followed here: one that returns, one that waits and retries,
\* one that retries at once
RouteResponses == {"ok", "rateLimited", "httpError"}

\* the upstream answers the request of sub-call p, Latency after it was sent
RouteResponds(p, response) ==
    /\ now = callers[p].sentAt + Latency
    /\ Responds(p, response)

\* time passes while the aggregation waits, the three routes having been
\* called at once: to the next timer, or by the latency of a request just sent
Elapse(d) ==
    /\ requests # {}
    /\ \A p \in Callers : callers[p].pc # "idle"
    /\ d > 0
    /\ \A t \in Deadlines : now + d <= t
    /\ now' = now + d
    /\ UNCHANGED <<ticks, view, localStorage, profilerVars, explorerVars, reads,
                   clientVars, pageVars, dexVars, formatVars>>

NextSettle ==
    \/ \E a \in Addresses : ShowProfiler(a)
    \/ \E p \in Callers : RouteCalls(p)
    \/ \E p \in Callers : RateLimitWakes(p)
    \/ \E p \in Callers : \E response \in RouteResponses : RouteResponds(p, response)
    \/ \E p \in Callers : TimesOut(p)
    \/ \E p \in Callers : BackoffWakes(p)
    \/ \E r \in requests : AllSettled(r)
    \/ \E d \in {Latency : p \in {q \in Callers : callers[q].sentAt = now}}
                \cup {t - now : t \in Deadlines} : Elapse(d)

SpecSettle == Init /\ [][NextSettle]_vars

\* the timers fire and the handlers run; that the upstream answers is not
\* assumed
Scheduled ==
    \/ \E p \in Callers : RouteCalls(p) \/ RateLimitWakes(p) \/ TimesOut(p) \/ BackoffWakes(p)
    \/ \E d \in {t - now : t \in Deadlines} : Elapse(d)

\* AllSettled is enabled
AwaitReady == requests # {} /\ \A p \in Callers : Settled(p)

\* weak fairness of the scheduled steps and of AllSettled, which happens once:
\* it is not enabled for ever
SpecSettleLive == SpecSettle /\ WF_vars(Scheduled) /\ []<>~AwaitReady

(***************************************************************************)
(* The parallel upstream calls of the two aggregations, settling in any    *)
(* order: the three fetches of fetchRealData, and the tokenPromises of     *)
(* getAllBaseTokens.                                                       *)
(***************************************************************************)
InitGather ==
    /\ InitOther
    /\ raw = NoRaw
    /\ formatted = Unformatted
    /\ \/ upstream = NoUpstream /\ route = Gathering("allSettled")
       \/ /\ upstream \in Upstreams
          /\ Len(upstream.search) <= MaxGatherSearchPairs
          /\ route = Gathering("all")

\* the fetch of sub-call i settles
SubCallSettles(i, outcome) ==
    /\ route.op = "allSettled"
    /\ requests # {}
    /\ Pending(i)
    /\ route' = [route EXCEPT !.settled[i] = outcome, !.order = Append(@, i)]
    /\ UNCHANGED <<now, ticks, view, localStorage, profilerVars, explorerVars, reads,
                   clientVars, pageVars, upstream, formatVars>>

\* Promise.allSettled settles when its three promises have
AllSettledReturns(r) ==
    /\ route.op = "allSettled"
    /\ Len(route.order) = 3
    /\ FetchReturns(r, promiseAll(route.settled, route.order))

\* the tokenPromise of KNOWN_BASE_TOKENS[i] settles
TokenPromiseSettles(i) ==
    /\ route.op = "all"
    /\ Pending(i)
    /\ route' = [route EXCEPT
                    !.settled[i] = tokenPromise(upstream, KNOWN_BASE_TOKENS[i], "liquidity"),
                    !.order = Append(@, i)]
    /\ UNCHANGED <<now, ticks, view, localStorage, profilerVars, explorerVars, reads,
                   clientVars, pageVars, upstream, formatVars>>

\* getAllBaseTokens after Promise.all(tokenPromises)
AllReturns ==
    /\ route.op = "all"
    /\ Len(route.order) = 3
    /\ LET tokenResults_ == promiseAll(route.settled, route.order)
           allTokens_ == knownTokens(tokenResults_)
                         \o additionalTokens(upstream, Len(popularSearches))
       IN route' = [route EXCEPT
              !.op = "merged",
              !.dexTokens = slice(sort(removeDuplicates(allTokens_), "liquidity"),
                                  DefaultLimit)]
    /\ UNCHANGED <<now, ticks, view, localStorage, profilerVars, explorerVars, reads,
                   clientVars, pageVars, upstream, formatVars>>

NextGather ==
    \/ \E a \in Addresses : route.op = "allSettled" /\ view = "none" /\ ShowProfiler(a)
    \/ \E i \in 1..3 : \E outcome \in Outcomes : SubCallSettles(i, outcome)
    \/ \E r \in requests : AllSettledReturns(r)
    \/ \E i \in 1..3 : TokenPromiseSettles(i)
    \/ AllReturns

SpecGather == InitGather /\ [][NextGather]_vars

(***************************************************************************)
(* The token explorer with the lengths of its lists and its pagination.    *)
(***************************************************************************)
\* the lengths of data.data followed: no page, two pages, three pages
ListLengths == {0, 25, 45}

\* the fetch of a fetchTokens call ends with length tokens
TokensReturnData(length) ==
    /\ view = "tokens"
    /\ tokenRequests > 0
    /\ LET w0 == ExplorerWorld(explorer, tokenRequests - 1, searchRequests)
           w1 == fetchTokensReturns(w0, "ok")
       IN ExplorerSettle(ExplorerRender(explorer,
                             [w1 EXCEPT !.c.tokensLength = length], FALSE))
    /\ UNCHANGED <<now, ticks, view, localStorage, profilerVars, clientVars, pageVars, dexVars, formatVars>>

\* the fetch of searchTokens call r ends with length tokens
SearchReturnsData(r, length) ==
    /\ view = "tokens"
    /\ r \in searchRequests
    /\ LET w0 == ExplorerWorld(explorer, tokenRequests, searchRequests \ {r})
           w1 == searchTokensReturns(w0, r.query, "ok")
       IN ExplorerSettle(ExplorerRender(explorer,
                             [w1 EXCEPT !.c.searchResultsLength = length], FALSE))
    /\ UNCHANGED <<now, ticks, view, localStorage, profilerVars, clientVars, pageVars, dexVars, formatVars>>

\* a handler of the pagination controls leaves the world w
Paginates(w) ==
    /\ view = "tokens"
    /\ PaginationShown(explorer)
    /\ w.c # explorer
    /\ ExplorerSettle(ExplorerRender(explorer, w, FALSE))
    /\ UNCHANGED <<now, ticks, view, localStorage, profilerVars, clientVars, pageVars, dexVars, formatVars>>

\* the Next and Previous buttons
OnNextPage ==
    Paginates(nextPage(explorer, ExplorerWorld(explorer, tokenRequests, searchRequests)))

OnPrevPage ==
    Paginates(prevPage(explorer, ExplorerWorld(explorer, tokenRequests, searchRequests)))

\* a page button: the pages 1..totalPages when they are 5 at most
OnPageChange(pageNum) ==
    /\ pageNum \in 1..totalPages(explorer)
    /\ Paginates(goToPage(ExplorerWorld(explorer, tokenRequests, searchRequests), pageNum))

NextPaging ==
    \/ ShowTokens
    \/ \E length \in ListLengths : TokensReturnData(length)
    \/ Refresh
    \/ \E v \in {"base", "search"} : TabChange(v)
    \/ \E q \in Queries \cup {""} : SetSearchQuery(q)
    \/ DebounceFires
    \/ \E r \in searchRequests : \E length \in ListLengths : SearchReturnsData(r, length)
    \/ OnNextPage
    \/ OnPrevPage
    \/ \E pageNum \in 1..3 : OnPageChange(pageNum)

SpecPaging == Init /\ [][NextPaging]_vars

(***************************************************************************)
(* The formatting operations, each on a record of the upstream.            *)
(***************************************************************************)
InitFormat ==
    /\ InitOther
    /\ upstream = NoUpstream
    /\ route = RouteIdle
    /\ raw \in RawRecords
    /\ formatted = Unformatted

Formats(op, result) ==
    /\ formatted.op = "none"
    /\ formatted' = [Unformatted EXCEPT !.op = op,
                                        !.tokenDecimal = result.tokenDecimal,
                                        !.value = result.value]
    /\ UNCHANGED <<now, ticks, view, localStorage, profilerVars, explorerVars, reads,
                   clientVars, pageVars, dexVars, raw>>

FormatTokenTransfer == Formats("formatTokenTransfer", formatTokenTransfer(raw))

GetTokenBalances ==
    Formats("getTokenBalances",
            [tokenDecimal |-> parseInt(getTokenBalance(raw).tokenDecimal),
             value |-> parseInt(getTokenBalance(raw).balance)])

TokensRoute(type) == Formats(type, tokensRoute(type, raw))

\* formatTransaction (value) and the balance of getWalletInfo: the same
\* division and toFixed(6), on amounts that parse and are not negative
FormatTransaction ==
    /\ formatted.op = "none"
    /\ formatted' = [Unformatted EXCEPT !.op = "formatTransaction",
                                        !.eth = toFixed6(raw.wei)]
    /\ UNCHANGED <<now, ticks, view, localStorage, profilerVars, explorerVars, reads,
                   clientVars, pageVars, dexVars, raw>>

NextFormat ==
    \/ FormatTokenTransfer
    \/ GetTokenBalances
    \/ \E type \in {"balances", "transfers"} : TokensRoute(type)
    \/ FormatTransaction

SpecFormat == InitFormat /\ [][NextFormat]_vars

(***************************************************************************)
(* Properties of the aggregation (SpecAggregate).                          *)
(***************************************************************************)
\* what the aggregation sees of sub-call i: it failed
SubCallFails(o, i) == o[i] \in {"error", "rejected", "unreadable"}

\* C1: whenever at least one of the three sub-calls succeeds, fetchRealData
\* succeeds, whatever the failures of the others (rejected, error response,
\* unreadable body): the result holds the data of the sub-calls that succeeded
\* and null/empty for those that failed.
C1_PartialSuccess ==
    [][\A r \in requests : \A o \in [1..3 -> Outcomes] :
          (FetchReturns(r, o) /\ \E i \in 1..3 : ~SubCallFails(o, i))
          => /\ profiler'.realData.kind = "data"
             /\ profiler'.realData.wallet = SubData(o, 1).data
             /\ profiler'.realData.transactions
                  = (IF SubCallFails(o, 2) THEN "empty" ELSE SubData(o, 2).data)
             /\ profiler'.realData.tokens
                  = (IF SubCallFails(o, 3) THEN "empty" ELSE SubData(o, 3).data)]_vars

\* C2: the aggregation reports a failure to the UI exactly when all three
\* sub-calls failed, and the failure is then the all-sources-failed error.
C2_AllFailedOnly ==
    [][\A r \in requests : \A o \in [1..3 -> Outcomes] :
          (FetchReturns(r, o) /\ profiler.error = "null")
          => /\ (\A i \in 1..3 : SubCallFails(o, i)) => profiler'.error = "AllFailed"
             /\ profiler'.error # "null" => \A i \in 1..3 : SubCallFails(o, i)]_vars

(***************************************************************************)
(* Properties of the caches (Spec).                                        *)
(***************************************************************************)
\* the time-to-live of the cache a read was made of
TimeToLive(read) ==
    IF read.cache = "wallet" THEN CACHE_DURATION ELSE TOKEN_CACHE_DURATION

C5_KeyedByEntity ==
    /\ [][\A b \in Addresses :
            (ChangeAddress(b) /\ requests' = requests)
            => loadFromCacheHit(localStorage, b)]_vars
    /\ [](\A i \in 1..Len(reads) :
            (reads[i].cache = "wallet" /\ reads[i].hit)
            => getCacheKey(reads[i].value.realData.address) = reads[i].key)

\* C6: the result of an aggregation started for an address the user has left
\* is never stored in the cache under another address's key, and is never the
\* data or the profile displayed for another address.
C6_LateResultDiscarded ==
    /\ \A k \in CacheKeys :
         localStorage[k].kind = "entry"
         => getCacheKey(localStorage[k].realData.address) = k
    /\ (view = "profiler" /\ profiler.realData.kind = "data")
         => getCacheKey(profiler.realData.address) = getCacheKey(profiler.searchedAddress)
    /\ (view = "profiler" /\ profiler.walletProfile.kind = "profile")
         => getCacheKey(profiler.walletProfile.basis.address)
              = getCacheKey(profiler.searchedAddress)

\* C8: an aggregation or a token-list fetch that ends in an error writes no
\* cache entry and no last-fetch timestamp.
C8_NoCacheWriteOnError ==
    [][/\ \A r \in requests : \A o \in CacheOutcomes :
            (FetchReturns(r, o) /\ AggregateStatus(o) # "success")
            => /\ localStorage' = localStorage
               /\ profiler'.lastFetchTime = profiler.lastFetchTime
       /\ \A o \in TokenOutcomes \ {"ok"} :
            TokensReturn(o)
            => /\ localStorage' = localStorage
               /\ explorer'.lastFetchTime = explorer.lastFetchTime]_vars

\* an aggregation has failed and nothing is cached, neither then nor later
C8_FailedAndNothingCached ==
    /\ view = "profiler"
    /\ profiler.error \in {"AllFailed", "ParseError"}
    /\ profiler.lastFetchTime = NoTime
    /\ requests = {}
    /\ ticks > 0
    /\ \A k \in CacheKeys : localStorage[k].kind = "null"

TokenCacheState(s) ==
    IF s.lastFetchTime = NoTime THEN "Empty"
    ELSE IF now - s.lastFetchTime < TOKEN_CACHE_DURATION THEN "Fresh" ELSE "Stale"

WalletCacheSurvives ==
    /\ [][(view = "profiler" /\ view' # "profiler") => localStorage' = localStorage]_vars
    /\ [][\A address \in Addresses :
            (ShowProfiler(address) /\ loadFromCacheHit(localStorage, address))
            => requests' = {} /\ profiler'.realData.kind = "data"]_vars

\* the token cache outlives the explorer: unmounting leaves the time of the
\* last successful fetch in place, and a mount that finds it fresh calls no
\* upstream
TokenCacheSurvives ==
    /\ [][(view = "tokens" /\ view' # "tokens")
            => explorer'.lastFetchTime = explorer.lastFetchTime]_vars
    /\ [][(ShowTokens /\ fetchTokensHit(explorer, FALSE)) => tokenRequests' = 0]_vars

\* C20: cached results survive navigation: after a successful fetch, leaving
\* the component and returning before the time-to-live has passed finds the
\* result still cached and makes no new upstream call, for the wallet cache
\* and the token-list cache alike.
C20_CacheSurvivesNavigation == WalletCacheSurvives /\ TokenCacheSurvives

(***************************************************************************)
(* Properties of the Etherscan client (SpecClient).                        *)
(***************************************************************************)
\* C3: a makeRequest call whose every attempt times out is attempted exactly
\* maxRetries = 3 times and then fails with the timeout error; no call makes a
\* fourth attempt.
C3_RetryCeiling ==
    \A p \in Callers :
        LET c == callers[p]
        IN /\ c.attempt <= maxRetries
           /\ (c.onlyTimeouts /\ c.pc \in {"returned", "thrown"})
                => c.pc = "thrown" /\ c.attempt = maxRetries
                   /\ c.lastError = "RequestTimeout"
           /\ (c.onlyTimeouts /\ c.pc = "backoff") => c.attempt < maxRetries

\* a call has failed with the timeout error after three attempts that all
\* timed out
C3_ThreeTimeouts ==
    \E p \in Callers :
        /\ callers[p].pc = "thrown"
        /\ callers[p].onlyTimeouts
        /\ callers[p].attempt = 3
        /\ callers[p].lastError = "RequestTimeout"

\* C10: any two requests the client sends to Etherscan start at least
\* minInterval = 250 ms apart, whichever callers and whichever attempts they
\* belong to.
C10_MinimumSpacing ==
    [][\A p \in Callers :
          (callers'[p].pc = "fetch" /\ callers'[p].attempt # callers[p].attempt
             /\ lastSent # NoTime)
          => now - lastSent >= minInterval]_vars

(***************************************************************************)
(* Properties of the identity search (SpecPage).                           *)
(***************************************************************************)
\* C7: once the user has cancelled a running search, its calls in flight are
\* aborted, and its results never reach searchedAddress, userProfiles or
\* hasSearched when they arrive.
C7_CancelSuppressesWrites ==
    /\ [](\A r \in searches : r.cancelled => r.aborted)
    /\ [][\A r \in searches :
            (/\ r.cancelled
             /\ \/ \E resolved \in Addresses \cup {""} : Resolves(r, resolved)
                \/ \E outcome \in ProfileOutcomes : ProfilesReturn(r, outcome))
            => /\ page'.searchedAddress = page.searchedAddress
               /\ page'.userProfiles = page.userProfiles
               /\ page'.hasSearched = page.hasSearched]_vars

\* C11: a request that receives a non-transient HTTP error status is attempted
\* once only: makeRequest rejects and makes no further fetch.
C11_HttpErrorNotRetried ==
    [][\A p \in Callers :
          Responds(p, "httpError")
          => /\ callers'[p].pc = "thrown"
             /\ callers'[p].attempt = callers[p].attempt]_vars

\* C12: when the upstream reports that there is nothing to return (invalid
\* address, no transactions found), makeRequest returns an empty result on
\* that same attempt: no error, no retry.
C12_EmptyReportReturnsEmpty ==
    [][\A p \in Callers : \A response \in EmptyReports :
          Responds(p, response)
          => /\ callers'[p].pc = "returned"
             /\ callers'[p].result = "empty"
             /\ callers'[p].attempt = callers[p].attempt]_vars

\* C13: when makeRequest has given up with an error, every operation of the
\* client that made the call rejects: none resolves to an empty list or a zero.
C13_FailurePropagates ==
    \A p \in Callers :
        callers[p].pc = "thrown"
        => \A op \in Operations : operation(op, callers[p]).status = "rejected"

(***************************************************************************)
(* Properties of removeDuplicates (SpecDedup).                             *)
(***************************************************************************)
\* the pair of the list that has the highest 24h volume among those of the
\* address, the first such in the list
BestByVolume(pairs, tokenAddress) ==
    pairs[CHOOSE i \in DOMAIN pairs :
              /\ toLowerCase(pairs[i].address) = tokenAddress
              /\ \A j \in DOMAIN pairs :
                     toLowerCase(pairs[j].address) = tokenAddress
                     => \/ h24(pairs[j]) < h24(pairs[i])
                        \/ h24(pairs[j]) = h24(pairs[i]) /\ i <= j]

\* C14: removeDuplicates returns exactly one record for each distinct contract
\* address of its input, compared without regard to case, and that record is
\* the one with the highest 24h volume, the first seen among equals.
C14_OnePerAddressHighestVolume ==
    route.op = "removeDuplicates"
    => /\ \A n \in DOMAIN route.pairs :
              Cardinality({i \in DOMAIN route.dexTokens :
                  toLowerCase(route.dexTokens[i].address)
                      = toLowerCase(route.pairs[n].address)}) = 1
       /\ \A i \in DOMAIN route.dexTokens :
              route.dexTokens[i]
                  = BestByVolume(route.pairs, toLowerCase(route.dexTokens[i].address))

\* removeDuplicates has merged two spellings of one address, and has kept the
\* first of two pairs of equal volume
C14_TieKeepsFirstSeen ==
    /\ route.op = "removeDuplicates"
    /\ \E i, j \in DOMAIN route.pairs :
           /\ route.pairs[i].address # route.pairs[j].address
           /\ toLowerCase(route.pairs[i].address) = toLowerCase(route.pairs[j].address)
    /\ \E i, j \in DOMAIN route.pairs :
           /\ i < j
           /\ route.pairs[i] # route.pairs[j]
           /\ toLowerCase(route.pairs[i].address) = toLowerCase(route.pairs[j].address)
           /\ h24(route.pairs[i]) = h24(route.pairs[j])
           /\ \E n \in DOMAIN route.dexTokens : route.dexTokens[n] = route.pairs[i]

\* C15: removeDuplicates is idempotent: applied to its own output it returns
\* the same records in the same order.
C15_Idempotent ==
    route.op = "removeDuplicates"
    => removeDuplicates(route.dexTokens) = route.dexTokens

\* removeDuplicates has dropped pairs and has left more than one address
C15_DroppedSomeKeptSeveral ==
    /\ route.op = "removeDuplicates"
    /\ Len(route.dexTokens) >= 2
    /\ Len(route.dexTokens) < Len(route.pairs)

(***************************************************************************)
(* Properties of the DEXScreener route (SpecDex).                          *)
(***************************************************************************)
\* C16: in each of the three modes the list GET returns has no two records
\* with the same id (the lowercased contract address).
C16_NoTwoRecordsWithOneId ==
    route.op = "GET"
    => \A i, j \in DOMAIN route.tokens :
           route.tokens[i].id = route.tokens[j].id => i = j

\* C17: the default list holds, for each address, the candidate with the
\* highest USD liquidity, and has at most 100 records.
C17_DefaultKeepsHighestLiquidity ==
    route.op = "GET" /\ ~route.trending /\ route.search = ""
    => /\ Len(route.dexTokens) <= DefaultLimit
       /\ \A i \in DOMAIN route.dexTokens :
              \A j \in DOMAIN allTokens(upstream) :
                  toLowerCase(allTokens(upstream)[j].address)
                      = toLowerCase(route.dexTokens[i].address)
                  => usd(route.dexTokens[i]) >= usd(allTokens(upstream)[j])

\* C18: the list a search returns is ordered by USD liquidity, highest first,
\* and holds every contract address once.
C18_SearchOrderedByLiquidity ==
    route.op = "GET" /\ ~route.trending /\ route.search # ""
    => /\ \A i, j \in DOMAIN route.dexTokens :
              i < j => usd(route.dexTokens[i]) >= usd(route.dexTokens[j])
       /\ \A i, j \in DOMAIN route.tokens :
              route.tokens[i].id = route.tokens[j].id => i = j

\* C19: every pair GET returns is a pair of the Base chain, whatever its url.
C19_OnlyBaseChain ==
    route.op = "GET"
    => \A i \in DOMAIN route.dexTokens :
           route.dexTokens[i].chainId \in {"base", "8453"}

C22_MissingDecimalsDefaultTo18 ==
    (formatted.op \in {"formatTokenTransfer", "getTokenBalances", "balances", "transfers"}
       /\ raw.tokenDecimal = undefined)
    => /\ formatted.tokenDecimal = Number(18)
       /\ ~formatted.value.nan

\* C23: the amount of ether shown with 6 decimals, multiplied back by 10^18,
\* is the amount of wei it was made from.
C23_WeiRoundTrips ==
    formatted.op = "formatTransaction" => backConverted(formatted.eth, raw.wei)

(***************************************************************************)
(* Properties of the parallel calls (SpecGather).                          *)
(***************************************************************************)
\* C24: the output of an aggregation is fixed by what its parallel upstream
\* calls answered, not by the order in which they completed: the wallet
\* aggregate is the one of the sub-calls' outcomes by position, and the merged
\* deduplicated token list is the one of the upstream's answers.
C24_CompletionOrderIrrelevant ==
    /\ [][\A r \in requests :
            AllSettledReturns(r) =>
                IF AggregateStatus(route.settled) = "success"
                THEN profiler'.realData = NewRealData(r.address, route.settled)
                ELSE profiler'.error = AggregateStatus(route.settled)]_vars
    /\ [](route.op = "merged" => route.dexTokens = getAllBaseTokens(upstream))

\* both aggregations have ended after their calls completed out of order
C24_SettledOutOfOrder ==
    /\ route.order \in {<<3, 1, 2>>, <<2, 3, 1>>}
    /\ \/ /\ route.op = "merged"
          /\ Len(route.dexTokens) = 2
          /\ route.settled[1] # route.settled[2]
          /\ route.settled[3] # <<>>
       \/ /\ route.op = "allSettled"
          /\ requests = {}
          /\ profiler.realData.kind = "data"
          /\ route.settled[1] = "ok" /\ route.settled[2] = "rejected"

(***************************************************************************)
(* Properties of the client's scheduling and retries (SpecClient).         *)
(***************************************************************************)
\* C25: the calls through the client are serialized in the order of their
\* submission: a call has sent its first request only if every call made
\* before it has sent its own.
C25_SentInSubmissionOrder ==
    \A p \in Callers : \A q \in Callers :
        (p < q /\ callers[q].attempt >= 1) => callers[p].attempt >= 1

\* C26: the wait before the retry that follows the failed attempt n is
\* 1000 ms * n after a rate-limit answer and after a network error, and
\* 2000 ms * 2^(n-1) after a timeout, for every attempt n that is followed by
\* a retry.
C26_RetryDelays ==
    [][\A p \in Callers :
          LET n == callers[p].attempt
              delay == callers'[p].wakeAt - now
          IN (n < maxRetries /\ callers'[p].pc = "backoff")
             => /\ Responds(p, "rateLimited") => delay = 1000 * n
                /\ Responds(p, "networkError") => delay = 1000 * n
                /\ TimesOut(p) => delay = 2000 * Pow2(n - 1)]_vars

\* a call is at its third attempt, after two timeouts and the waits of 2000
\* and 4000 ms that followed them
C26_ThirdAttemptAfterTimeouts ==
    \E p \in Callers :
        /\ callers[p].pc = "fetch"
        /\ callers[p].attempt = 3
        /\ callers[p].onlyTimeouts
        /\ now = callers[p].sentAt
        /\ lastSent = now

\* C27: when makeRequest gives up, the error it throws is the failure of its
\* final attempt: the timeout error after a timeout, the error of the answer
\* after an answer, and a rate-limit error when the final attempt was answered
\* "rate limit reached" (the only wait after which the loop is over).
C27_ThrowsLastFailure ==
    [][\A p \in Callers :
          (callers[p].pc # "thrown" /\ callers'[p].pc = "thrown")
          => /\ TimesOut(p) => callers'[p].lastError = "RequestTimeout"
             /\ Responds(p, "apiError") => callers'[p].lastError = "ApiError"
             /\ Responds(p, "networkError") => callers'[p].lastError = "NetworkError"
             /\ Responds(p, "httpError") => callers'[p].lastError = "HttpError"
             /\ BackoffWakes(p) => callers'[p].lastError = "RateLimitError"]_vars

(***************************************************************************)
(* Properties of the token search and of the pagination.                   *)
(***************************************************************************)
\* C28: once no search is in flight and no debounce timer is pending, the
\* search results shown are those of the query in the input (or none): an
\* older response never stands in place of the newer one, and a cleared query
\* has no results.
C28_ResultsOfLatestQuery ==
    (view = "tokens" /\ searchRequests = {} /\ ~explorer.debounce)
    => explorer.searchResults \in {"", explorer.searchQuery}

\* C29: the page shown is always between 1 and the number of pages of the
\* displayed list (1 when the list is empty).
C29_PageInRange ==
    view = "tokens"
    => /\ 1 <= explorer.currentPage
       /\ explorer.currentPage
            <= (IF totalPages(explorer) > 1 THEN totalPages(explorer) ELSE 1)

(***************************************************************************)
(* Properties of the wallet cache under reads (Spec).                      *)
(***************************************************************************)
\* C30: a cache hit never extends the life of an item: a step in which the
\* wallet data is served from the cache leaves the stored item, timestamp
\* included, as it was; and a read made 30 minutes or more after the
\* timestamp of the item it finds is a miss.
C30_HitLeavesItemUntouched ==
    /\ [][\A i \in DOMAIN reads' :
            (reads'[i].cache = "wallet" /\ reads'[i].hit)
            => localStorage'[reads'[i].key] = localStorage[reads'[i].key]]_vars
    /\ [](\A i \in DOMAIN reads :
            (reads[i].cache = "wallet" /\ reads[i].present
               /\ reads[i].at - reads[i].timestamp >= CACHE_DURATION)
            => ~reads[i].hit)

\* wallet data was served from an item written earlier, which is still stored
\* with the timestamp of its writing
C30_ServedFromAgedItem ==
    \E i \in DOMAIN reads :
        /\ reads[i].cache = "wallet"
        /\ reads[i].hit
        /\ reads[i].at = now
        /\ reads[i].at - reads[i].timestamp = CACHE_DURATION - 1
        /\ localStorage[reads[i].key].kind = "entry"
        /\ localStorage[reads[i].key].timestamp = reads[i].timestamp
        /\ profiler.realData = reads[i].value.realData

====
